---- MODULE Spec2Model ----
(***************************************************************************)
(* Model of the Supermicro Redfish data coordinator                        *)
(* (custom_components/supermicro_redfish/coordinator.py) and of the        *)
(* entity action handlers that drive it, and of the repair flow of the     *)
(* connection issue (custom_components/supermicro_redfish/repairs.py).     *)
(*                                                                         *)
(* The coordinator runs on one asyncio event loop.  A step of the model is *)
(* the code executed between two suspension points (await).  Suspension    *)
(* points are the two fetches of _async_update_data and the sleep of       *)
(* _async_burst_polling.  Wall-clock time (time.time()) advances only in   *)
(* the Tick action, i.e. while every task is suspended.                    *)
(*                                                                         *)
(* The base class DataUpdateCoordinator is a library; the model assumes    *)
(* of it only that async_request_refresh() and the scheduled tick run      *)
(* _async_update_data(), that the returned value is stored in              *)
(* coordinator.data, and that an exception raised by _async_update_data    *)
(* leaves coordinator.data alone.  Whether a request that arrives while an *)
(* update is in flight joins it or starts another one is decided by the    *)
(* library, so the model allows both: a request joins, or starts another   *)
(* execution while fewer than MaxInFlight are alive.                       *)
(*                                                                         *)
(* Around the coordinator the model has the setup and the unload of the    *)
(* entry (__init__.py), the options form and the user and reconfigure      *)
(* flows (config_flow.py); their suspension points are the calls of the    *)
(* client (async_connect, async_disconnect) and the steps of a flow.       *)
(***************************************************************************)
EXTENDS Integers, Sequences, FiniteSets, TLC

\* ---------------------------------------------------------------- bounds
MaxTime == 4          \* the clock runs from Epoch to Epoch + MaxTime
MaxInFlight == 1      \* executions of _async_update_data alive at once
MaxTasks == 3         \* burst tasks created in one run
MaxErrors == 4        \* cap of the connection error counter
StaticInterval == 2   \* entry.options["static_interval"], in clock units
BurstInterval == 2    \* entry.options["burst_interval"], in clock units
BurstDuration == 3    \* entry.options["burst_duration"], in clock units
NumStatic == 2        \* distinct static payloads the BMC returns
NumDynamic == 2       \* distinct dynamic payloads the BMC returns
NumCreds == 2         \* distinct credentials a user enters in the repair flow
MaxReloads == 2       \* repair flows that run to their reload
Scale == 10           \* a form input is a number of 1/Scale seconds
MaxFlows == 2         \* user and reconfigure flows in progress at once

\* ------------------------------------------------------ program constants
CONNECTION_ERROR_THRESHOLD == 3

DEFAULT_SCAN_INTERVAL == 30
DEFAULT_BURST_INTERVAL == 5
DEFAULT_BURST_DURATION == 60
DEFAULT_STATIC_INTERVAL == 300
DEFAULT_CONCURRENT_REQUESTS == 5

MIN_SCAN_INTERVAL == 10
MAX_SCAN_INTERVAL == 300
MIN_BURST_INTERVAL == 1
MAX_BURST_INTERVAL == 30
MIN_BURST_DURATION == 10
MAX_BURST_DURATION == 300
MIN_STATIC_INTERVAL == 60
MAX_STATIC_INTERVAL == 900
MIN_CONCURRENT_REQUESTS == 1
MAX_CONCURRENT_REQUESTS == 10

\* time.time() at construction: any wall-clock reading exceeds the max-age,
\* so that  time.time() - 0 > _static_interval  holds (coordinator.py:51,105).
Epoch == StaticInterval + 1

None == << >>
Some(x) == << x >>

Errors == {"AuthenticationError", "ConnectionError", "Exception"}

\* ------------------------------------------------------------- the options
\* The keys of the options the coordinator reads, and those of the options form.
IntervalKeys == {"scan_interval", "burst_interval", "burst_duration", "static_interval"}
OptionKeys == IntervalKeys \cup {"max_concurrent_requests"}

DefaultOf ==
    [scan_interval |-> DEFAULT_SCAN_INTERVAL,
     burst_interval |-> DEFAULT_BURST_INTERVAL,
     burst_duration |-> DEFAULT_BURST_DURATION,
     static_interval |-> DEFAULT_STATIC_INTERVAL,
     max_concurrent_requests |-> DEFAULT_CONCURRENT_REQUESTS]

MinOf ==
    [scan_interval |-> MIN_SCAN_INTERVAL,
     burst_interval |-> MIN_BURST_INTERVAL,
     burst_duration |-> MIN_BURST_DURATION,
     static_interval |-> MIN_STATIC_INTERVAL,
     max_concurrent_requests |-> MIN_CONCURRENT_REQUESTS]

MaxOf ==
    [scan_interval |-> MAX_SCAN_INTERVAL,
     burst_interval |-> MAX_BURST_INTERVAL,
     burst_duration |-> MAX_BURST_DURATION,
     static_interval |-> MAX_STATIC_INTERVAL,
     max_concurrent_requests |-> MAX_CONCURRENT_REQUESTS]

\* vol.Coerce(int) of a non-negative number x / Scale: int() truncates.
CoerceInt(x) == x \div Scale

InRange_NoUpper(v, lo, hi) == lo <= v

\* vol.Range(min=lo, max=hi)
InRange(v, lo, hi) == lo <= v /\ v <= hi

\* The schema of the options form applied to the submitted values: whether
\* every value passes, and the dictionary handed to async_step_init.
SchemaAccepts(inp) ==
    \A k \in OptionKeys : InRange(CoerceInt(inp[k]), MinOf[k], MaxOf[k])

SchemaOutput(inp) == [k \in OptionKeys |-> CoerceInt(inp[k])]

\* The values submitted for one key: just outside and just inside each end of
\* its range (one inside, one outside for max_concurrent_requests).
OptionInputs(k) ==
    IF k = "max_concurrent_requests"
    THEN {DefaultOf[k] * Scale, (MaxOf[k] + 1) * Scale}
    ELSE {MinOf[k] * Scale - 1, MinOf[k] * Scale,
          MaxOf[k] * Scale + Scale - 1, (MaxOf[k] + 1) * Scale}

FormInputs ==
    [scan_interval : OptionInputs("scan_interval"),
     burst_interval : OptionInputs("burst_interval"),
     burst_duration : OptionInputs("burst_duration"),
     static_interval : OptionInputs("static_interval"),
     max_concurrent_requests : OptionInputs("max_concurrent_requests")]

\* entry.options.get(k, default)
OptionGet(opts, k, default) == IF opts = None THEN default ELSE opts[1][k]

\* The intervals SupermicroRedfishCoordinator.__init__ reads from the options;
\* update_interval is timedelta(seconds=scan_interval).
CoordinatorIntervals(opts) ==
    [k \in IntervalKeys |-> OptionGet(opts, k, DefaultOf[k])]

VARIABLES
    now,                 \* seconds elapsed since construction
    connection_errors,   \* self._connection_errors
    last_static_update,  \* self._last_static_update
    static_data_cache,   \* self._static_data_cache
    data,                \* coordinator.data
    issue,               \* issue registry: 0, or error_count of the issue
    exec,                \* executions of _async_update_data
    tasks,               \* burst polling tasks ever created
    burst_task,          \* self._burst_task: 0 (None) or an index of tasks
    outcome,             \* how the latest execution ended
    flip,                \* toggles whenever an execution ends
    conn_run,            \* ConnectionError failures since the last success
    raised_in_run,       \* async_create_issue calls since the last success
    alert_runs,          \* failure runs that raised the issue (saturates at 2)
    static_ok_time,      \* time the latest successful static fetch ended, or 0
    static_call_time,    \* time the refresh that made that fetch was called, or 0
    forced,              \* async_refresh_static_data called, no static fetch since
    auth_failed,         \* an execution raised ConfigEntryAuthFailed
    last_enable,         \* time of the latest enable_burst_mode() call, or 0
    fetched,             \* payloads the client returned last: static, dynamic (0: none)
    repair,              \* the repair flow of the issue and the credentials it stores
    registry,            \* issue registry: the issues of the integration
    control,             \* how the client call of the latest control action ended
    intervals,           \* the four intervals the coordinator was constructed with
    setup,               \* async_setup_entry / async_unload_entry of the entry
    options,             \* entry.options
    optflow,             \* the options flow: its latest submission and result
    entries,             \* configuration entries of the integration
    flows                \* user and reconfigure flows in progress

vars == << now, connection_errors, last_static_update, static_data_cache, data,
           issue, exec, tasks, burst_task, outcome, flip, conn_run,
           raised_in_run, alert_runs, static_ok_time, static_call_time, forced,
           auth_failed, last_enable, fetched, repair, registry, control, intervals,
           setup, options, optflow, entries, flows >>

coordVars == << connection_errors, last_static_update, static_data_cache, data, issue,
                registry >>
envVars == << intervals, setup, options, optflow, entries, flows >>
ghostVars == << conn_run, raised_in_run, alert_runs, static_ok_time, static_call_time,
               forced, auth_failed, fetched >>

\* time.time()
time == Epoch + now

Slots == 1 .. MaxInFlight
TaskIds == 1 .. MaxTasks

\* ------------------------------------------------------------ data classes
\* The payload of async_get_static_data() / async_get_dynamic_data(): every
\* attribute of one fetch carries the version tag of that fetch.
StaticData(v) ==
    [system |-> v, chassis |-> v, manager |-> v, ntp |-> v, lldp |-> v,
     license |-> v, network_protocol |-> v]

DynamicData(d) ==
    [thermal |-> d, power |-> d, fan_mode |-> d, snooping |-> d]

\* CoordinatorData(...) as built in the static branch (lines 118-130), from the
\* fresh payloads.
CoordinatorData(static, dynamic) ==
    [system |-> static.system,
     chassis |-> static.chassis,
     manager |-> static.manager,
     thermal |-> dynamic.thermal,
     power |-> dynamic.power,
     fan_mode |-> dynamic.fan_mode,
     ntp |-> static.ntp,
     lldp |-> static.lldp,
     snooping |-> dynamic.snooping,
     license |-> static.license,
     network_protocol |-> static.network_protocol]

CachedData_Retaining(cache, dynamic) == cache

CachedData_StaleSnooping(cache, dynamic) ==
    [system |-> cache.system,
     chassis |-> cache.chassis,
     manager |-> cache.manager,
     thermal |-> dynamic.thermal,
     power |-> dynamic.power,
     fan_mode |-> dynamic.fan_mode,
     ntp |-> cache.ntp,
     lldp |-> cache.lldp,
     snooping |-> cache.snooping,
     license |-> cache.license,
     network_protocol |-> cache.network_protocol]

\* CoordinatorData(...) as built in the cached branch (lines 134-146): static
\* attributes read from the cache, which is itself a CoordinatorData.
CachedData(cache, dynamic) ==
    [system |-> cache.system,
     chassis |-> cache.chassis,
     manager |-> cache.manager,
     thermal |-> dynamic.thermal,
     power |-> dynamic.power,
     fan_mode |-> dynamic.fan_mode,
     ntp |-> cache.ntp,
     lldp |-> cache.lldp,
     snooping |-> dynamic.snooping,
     license |-> cache.license,
     network_protocol |-> cache.network_protocol]

StaticFields == {"system", "chassis", "manager", "ntp", "lldp", "license", "network_protocol"}
DynamicFields == {"thermal", "power", "fan_mode", "snooping"}

\* ------------------------------------------------------------- executions
IdleExec == [pc |-> "idle", owner |-> "none", task |-> 0, dynamic |-> 0,
             called |-> 0, within |-> FALSE, late |-> FALSE, after_auth |-> FALSE]

NoTask == [st |-> "none", end_time |-> 0, wake |-> 0, stale |-> FALSE]

\* No repair flow is open; creds is the username and password stored in
\* entry.data (0: those of the setup), reloads counts the async_reload() calls
\* of the flow, tested is the result of its latest connection test.
NoRepair == [st |-> "none", input |-> 0, error |-> "none", tested |-> "none",
             creds |-> 0, reloads |-> 0]

NoOutcome == [err |-> "none", signal |-> "none", at |-> "none"]

\* No control action yet; seq toggles whenever the client call of one ends.
NoControl == [result |-> "none", seq |-> FALSE]

\* The entry is set up and its coordinator constructed: st is the position of
\* async_setup_entry / async_unload_entry, client is "new" (constructed),
\* "connected" or "closed" (async_disconnect() returned), coordinator tells
\* whether one was constructed, signal is what async_setup_entry raised.
Running == [st |-> "running", err |-> "none", signal |-> "none",
            client |-> "connected", coordinator |-> TRUE]

\* async_setup_entry has not been called.
NotSetUp == [st |-> "none", err |-> "none", signal |-> "none",
             client |-> "none", coordinator |-> FALSE]

\* No options flow yet: input is the latest submission, result what the flow
\* answered, seq toggles with every submission.
NoOptFlow == [input |-> None, result |-> "none", seq |-> FALSE]

\* The identity and the host of the entry the coordinator belongs to.
EntryId == 1
EntryHost == 1

\* The hosts a user enters: the one of the entry and another one.
Hosts == {EntryHost, EntryHost + 1}
FlowIds == 1 .. MaxFlows
EntryIds == 1 .. MaxFlows

\* What a user submits in the user and reconfigure forms.
FlowInputs == [host : Hosts, verify_ssl : BOOLEAN]

\* A free slot of the flow manager.  A flow in progress has a kind (user or
\* reconfigure) and a position st: form, testing, title, or its result
\* create_entry or abort; input is the submission being processed, tested the
\* result of the latest connection test and error the key the form shows.
NoFlow == [kind |-> "none", st |-> "none", input |-> None, error |-> "none",
           entry |-> 0, tested |-> "none"]

InFlight == {e \in Slots : exec[e].pc # "idle"}
FreeSlots == {e \in Slots : exec[e].pc = "idle"}
Alive(t) == tasks[t].st \in {"sleep", "refresh"}

\* The attributes of a coordinator as its constructor leaves them, and the
\* surroundings of the entry.
Constructed ==
    /\ now = 0
    /\ connection_errors = 0
    /\ last_static_update = 0
    /\ static_data_cache = None
    /\ data = None
    /\ issue = 0
    /\ exec = [e \in Slots |-> IdleExec]
    /\ tasks = [t \in TaskIds |-> NoTask]
    /\ burst_task = 0
    /\ outcome = NoOutcome
    /\ flip = FALSE
    /\ conn_run = 0
    /\ raised_in_run = 0
    /\ alert_runs = 0
    /\ static_ok_time = 0
    /\ static_call_time = 0
    /\ forced = FALSE
    /\ auth_failed = FALSE
    /\ last_enable = 0
    /\ fetched = [static |-> 0, dynamic |-> 0]
    /\ repair = NoRepair
    /\ registry = {}
    /\ control = NoControl
    /\ options = None
    /\ intervals = CoordinatorIntervals(None)
    /\ optflow = NoOptFlow
    /\ flows = [f \in FlowIds |-> NoFlow]

\* The entry of the coordinator is the only one.
OneEntry ==
    [e \in EntryIds |->
        IF e = EntryId THEN Some([host |-> EntryHost, verify_ssl |-> FALSE]) ELSE None]

\* The entry is set up and its coordinator was constructed.
Init ==
    /\ Constructed
    /\ setup = Running
    /\ entries = OneEntry

\* The entry exists and async_setup_entry has not been called for it.
InitSetup ==
    /\ Constructed
    /\ setup = NotSetUp
    /\ entries = OneEntry

\* The integration has no entry yet.
InitFlows ==
    /\ Constructed
    /\ setup = NotSetUp
    /\ entries = [e \in EntryIds |-> None]

\* One second passes while the event loop is idle or waiting for I/O; a
\* sleeping burst task is woken when its delay is over.
Elapse ==
    /\ \A t \in TaskIds : tasks[t].st = "sleep" => time < tasks[t].wake
    /\ now' = now + 1
    /\ UNCHANGED << coordVars, ghostVars, exec, tasks, burst_task, outcome, flip,
                    last_enable, control, envVars, repair >>

\* The clock, observed up to MaxTime.
Tick ==
    /\ now < MaxTime
    /\ Elapse

\* The latest time at which a burst task started by MaxTime can still be asleep.
Horizon == MaxTime + BurstDuration + BurstInterval

\* The clock, observed until every burst task started by MaxTime is over.
TickToHorizon ==
    /\ now < Horizon
    /\ Elapse

\* ------------------------------------------------------ _async_update_data
should_update_static_data_AtAge == time - last_static_update >= StaticInterval

\* _should_update_static_data(): the max-age test, strictly greater.
should_update_static_data == time - last_static_update > StaticInterval

\* The condition of the static branch (coordinator.py:114).
NeedsStatic == should_update_static_data \/ static_data_cache = None

\* The issue id of _async_create_repair_issue: connection_failed_{entry_id}.
RepairIssueId == << "connection_failed", EntryId >>

async_create_repair_issue_Appending(reg, n) ==
    reg \cup {[issue_id |-> RepairIssueId, host |-> EntryHost, error_count |-> n]}

\* _async_create_repair_issue() with the counter at n: the registry holds one
\* issue per issue id, and creating an issue under an id that exists replaces
\* the placeholders of that issue.
async_create_repair_issue(reg, n) ==
    {r \in reg : r.issue_id # RepairIssueId}
        \cup {[issue_id |-> RepairIssueId, host |-> EntryHost, error_count |-> n]}

\* The registry without the issue of the entry (the fix flow completed).
IssueRemoved(reg) == {r \in reg : r.issue_id # RepairIssueId}

IssueDue_Above(n) == n > CONNECTION_ERROR_THRESHOLD

\* The threshold test that guards _async_create_repair_issue().
IssueDue(n) == n >= CONNECTION_ERROR_THRESHOLD

BurstLoop_Endless(tsk) ==
    [tsk EXCEPT !.st = "sleep", !.wake = time + BurstInterval]

\* The while-condition of _async_burst_polling followed by the sleep: the task
\* either suspends in asyncio.sleep(burst_interval) or returns.
BurstLoop(tsk) ==
    IF time < tsk.end_time
    THEN [tsk EXCEPT !.st = "sleep", !.wake = time + BurstInterval]
    ELSE [tsk EXCEPT !.st = "done", !.wake = 0, !.end_time = 0, !.stale = FALSE]

\* The task that awaited the execution resumes: a burst task goes round its loop.
Resume(e, tk) ==
    IF exec[e].owner = "burst"
    THEN [tk EXCEPT ![exec[e].task] = BurstLoop(@)]
    ELSE tk

\* The execution in slot e ends (returns or raises) with outcome out.
Finish(e, out) ==
    /\ exec' = [exec EXCEPT ![e] = IdleExec]
    /\ outcome' = out
    /\ flip' = ~flip

\* The entry of _async_update_data up to its first suspension, in slot e of the
\* table ex, on behalf of owner (task t when a burst task awaits it).
Begin(ex, e, owner, t) ==
    [ex EXCEPT ![e] =
        [pc |-> "fetch_dynamic", owner |-> owner, task |-> t, dynamic |-> 0,
         called |-> time,
         within |-> /\ static_call_time # 0
                    /\ ~forced
                    /\ time - static_call_time <= StaticInterval,
         late |-> owner = "burst" /\ time > tasks[t].end_time,
         after_auth |-> /\ auth_failed
                        /\ \/ owner = "sched"
                           \/ owner = "burst" /\ tasks[t].stale]]

Success_ClearingIssue(e, newdata, at) ==
    /\ connection_errors' = 0
    /\ issue' = 0
    /\ registry' = IssueRemoved(registry)
    /\ data' = Some(newdata)
    /\ conn_run' = 0
    /\ raised_in_run' = 0
    /\ tasks' = Resume(e, tasks)
    /\ Finish(e, [err |-> "none", signal |-> "returned", at |-> at])
    /\ UNCHANGED << now, burst_task, alert_runs, auth_failed, last_enable, control, envVars, repair >>

Success_KeepingCount(e, newdata, at) ==
    /\ data' = Some(newdata)
    /\ conn_run' = 0
    /\ raised_in_run' = 0
    /\ tasks' = Resume(e, tasks)
    /\ Finish(e, [err |-> "none", signal |-> "returned", at |-> at])
    /\ UNCHANGED << now, connection_errors, issue, registry, burst_task, alert_runs, auth_failed,
                    last_enable, control, envVars, repair >>

\* Lines 148-151: reset the counter and return data (stored in coordinator.data).
Success(e, newdata, at) ==
    /\ connection_errors' = 0
    /\ data' = Some(newdata)
    /\ conn_run' = 0
    /\ raised_in_run' = 0
    /\ tasks' = Resume(e, tasks)
    /\ Finish(e, [err |-> "none", signal |-> "returned", at |-> at])
    /\ UNCHANGED << now, issue, registry, burst_task, alert_runs, auth_failed, last_enable, control, envVars, repair >>

OnAuthenticationError_Counting(e, at) ==
    /\ connection_errors < MaxErrors
    /\ connection_errors' = connection_errors + 1
    /\ auth_failed' = TRUE
    /\ tasks' = Resume(e, tasks)
    /\ Finish(e, [err |-> "AuthenticationError", signal |-> "ConfigEntryAuthFailed",
                  at |-> at])
    /\ UNCHANGED << now, last_static_update, static_data_cache, data, issue, registry,
                    burst_task, conn_run, raised_in_run, alert_runs,
                    static_ok_time, static_call_time, forced, last_enable, control, envVars, repair, fetched >>

\* except AuthenticationError: raise ConfigEntryAuthFailed.
OnAuthenticationError(e, at) ==
    /\ auth_failed' = TRUE
    /\ tasks' = LET r == Resume(e, tasks)
                 IN [t \in TaskIds |->
                        IF r[t].st \in {"sleep", "refresh"}
                        THEN [r[t] EXCEPT !.stale = TRUE]
                        ELSE r[t]]
    /\ Finish(e, [err |-> "AuthenticationError", signal |-> "ConfigEntryAuthFailed",
                  at |-> at])
    /\ UNCHANGED << now, coordVars, burst_task, conn_run, raised_in_run, alert_runs,
                    static_ok_time, static_call_time, forced, last_enable, control, envVars, repair, fetched >>

OnConnectionError_Clearing(e, at) ==
    /\ connection_errors < MaxErrors
    /\ connection_errors' = connection_errors + 1
    /\ conn_run' = conn_run + 1
    /\ data' = None
    /\ IF IssueDue(connection_errors + 1)
       THEN /\ issue' = connection_errors + 1
            /\ registry' = async_create_repair_issue(registry, connection_errors + 1)
            /\ raised_in_run' = raised_in_run + 1
            /\ alert_runs' = IF raised_in_run = 0 /\ alert_runs < 2
                             THEN alert_runs + 1 ELSE alert_runs
       ELSE UNCHANGED << issue, registry, raised_in_run, alert_runs >>
    /\ tasks' = Resume(e, tasks)
    /\ Finish(e, [err |-> "ConnectionError", signal |-> "UpdateFailed(connection_failed)",
                  at |-> at])
    /\ UNCHANGED << now, last_static_update, static_data_cache, burst_task,
                    static_ok_time, static_call_time, forced, auth_failed, last_enable, control, envVars, repair,
                    fetched >>

\* except ConnectionError: count, create the repair issue at the threshold,
\* raise UpdateFailed(connection_failed).
OnConnectionError(e, at) ==
    /\ connection_errors < MaxErrors
    /\ connection_errors' = connection_errors + 1
    /\ conn_run' = conn_run + 1
    /\ IF IssueDue(connection_errors + 1)
       THEN /\ issue' = connection_errors + 1
            /\ registry' = async_create_repair_issue(registry, connection_errors + 1)
            /\ raised_in_run' = raised_in_run + 1
            /\ alert_runs' = IF raised_in_run = 0 /\ alert_runs < 2
                             THEN alert_runs + 1 ELSE alert_runs
       ELSE UNCHANGED << issue, registry, raised_in_run, alert_runs >>
    /\ tasks' = Resume(e, tasks)
    /\ Finish(e, [err |-> "ConnectionError", signal |-> "UpdateFailed(connection_failed)",
                  at |-> at])
    /\ UNCHANGED << now, last_static_update, static_data_cache, data, burst_task,
                    static_ok_time, static_call_time, forced, auth_failed, last_enable, control, envVars, repair,
                    fetched >>

OnException_Emptying(e, at) ==
    /\ data' = None
    /\ tasks' = Resume(e, tasks)
    /\ Finish(e, [err |-> "Exception", signal |-> "UpdateFailed(Unexpected error)",
                  at |-> at])
    /\ UNCHANGED << now, connection_errors, last_static_update, static_data_cache,
                    issue, registry, burst_task, ghostVars, last_enable, control, envVars, repair >>

OnException_Counting(e, at) ==
    /\ connection_errors < MaxErrors
    /\ connection_errors' = connection_errors + 1
    /\ tasks' = Resume(e, tasks)
    /\ Finish(e, [err |-> "Exception", signal |-> "UpdateFailed(Unexpected error)",
                  at |-> at])
    /\ UNCHANGED << now, last_static_update, static_data_cache, data, issue, registry,
                    burst_task, ghostVars, last_enable, control, envVars, repair >>

\* except Exception: log, raise UpdateFailed("Unexpected error: ...").
OnException(e, at) ==
    /\ tasks' = Resume(e, tasks)
    /\ Finish(e, [err |-> "Exception", signal |-> "UpdateFailed(Unexpected error)",
                  at |-> at])
    /\ UNCHANGED << now, coordVars, burst_task, ghostVars, last_enable, control, envVars, repair >>

\* The except clauses of _async_update_data, by the error the fetch raised.
Handle(e, err, at) ==
    \/ err = "AuthenticationError" /\ OnAuthenticationError(e, at)
    \/ err = "ConnectionError" /\ OnConnectionError(e, at)
    \/ err = "Exception" /\ OnException(e, at)

DynamicReturns_Publishing(e, d) ==
    /\ exec[e].pc = "fetch_dynamic"
    /\ fetched' = [fetched EXCEPT !.dynamic = d]
    /\ IF NeedsStatic
       THEN /\ exec' = [exec EXCEPT ![e].pc = "fetch_static", ![e].dynamic = d]
            /\ data' = IF data = None THEN data
                       ELSE Some([f \in DOMAIN data[1] |->
                                    IF f \in DynamicFields THEN d ELSE data[1][f]])
            /\ UNCHANGED << now, connection_errors, last_static_update,
                            static_data_cache, issue, registry, conn_run, raised_in_run,
                            alert_runs, static_ok_time, static_call_time, forced,
                            auth_failed, tasks, burst_task, outcome, flip,
                            last_enable, control, envVars, repair >>
       ELSE /\ Success(e, CachedData(static_data_cache[1], DynamicData(d)),
                       "fetch_dynamic")
            /\ UNCHANGED << last_static_update, static_data_cache, static_ok_time,
                            static_call_time, forced >>

\* async_get_dynamic_data() returns payload d: take the static decision; the
\* cached branch builds the data and returns without a further suspension.
DynamicReturns(e, d) ==
    /\ exec[e].pc = "fetch_dynamic"
    /\ fetched' = [fetched EXCEPT !.dynamic = d]
    /\ IF NeedsStatic
       THEN /\ exec' = [exec EXCEPT ![e].pc = "fetch_static", ![e].dynamic = d]
            /\ UNCHANGED << now, coordVars, conn_run, raised_in_run, alert_runs,
                            static_ok_time, static_call_time, forced, auth_failed,
                            tasks, burst_task, outcome, flip, last_enable, control, envVars, repair >>
       ELSE /\ Success(e, CachedData(static_data_cache[1], DynamicData(d)),
                       "fetch_dynamic")
            /\ UNCHANGED << last_static_update, static_data_cache, static_ok_time,
                            static_call_time, forced >>

DynamicRaises_ThenStatic(e, err) ==
    /\ exec[e].pc = "fetch_dynamic"
    /\ IF NeedsStatic
       THEN /\ exec' = [exec EXCEPT ![e].pc = "fetch_static"]
            /\ UNCHANGED << now, coordVars, ghostVars, tasks, burst_task, outcome,
                            flip, last_enable, control, envVars, repair >>
       ELSE Handle(e, err, "fetch_dynamic")

\* async_get_dynamic_data() raises err.
DynamicRaises(e, err) ==
    /\ exec[e].pc = "fetch_dynamic"
    /\ Handle(e, err, "fetch_dynamic")

StaticReturns_StampOnly(e, v) ==
    /\ exec[e].pc = "fetch_static"
    /\ LET newdata == CoordinatorData(StaticData(v), DynamicData(exec[e].dynamic))
       IN /\ last_static_update' = time
          /\ static_data_cache' = static_data_cache
          /\ static_ok_time' = time
          /\ static_call_time' = exec[e].called
          /\ forced' = FALSE
          /\ fetched' = [fetched EXCEPT !.static = v]
          /\ Success(e, newdata, "fetch_static")

\* async_get_static_data() returns payload v: lines 116-131, then 148-151.
StaticReturns(e, v) ==
    /\ exec[e].pc = "fetch_static"
    /\ LET newdata == CoordinatorData(StaticData(v), DynamicData(exec[e].dynamic))
       IN /\ last_static_update' = time
          /\ static_data_cache' = Some(newdata)
          /\ static_ok_time' = time
          /\ static_call_time' = exec[e].called
          /\ forced' = FALSE
          /\ fetched' = [fetched EXCEPT !.static = v]
          /\ Success(e, newdata, "fetch_static")

\* async_get_static_data() raises err.
StaticRaises(e, err) ==
    /\ exec[e].pc = "fetch_static"
    /\ Handle(e, err, "fetch_static")

\* ------------------------------------------------------------- burst mode
\* "if self._burst_task and not self._burst_task.done()"
CancelDue == burst_task # 0 /\ tasks[burst_task].st \notin {"done", "cancelled"}

\* Task.cancel(): CancelledError is thrown into the task at the await it is
\* suspended in.  A task suspended in "await self.async_request_refresh()" is
\* running the update inline, so the update it awaits is torn down with it.
CancelledTasks_Stacking == tasks

CancelledTasks ==
    IF CancelDue
    THEN [tasks EXCEPT ![burst_task] = [NoTask EXCEPT !.st = "cancelled"]]
    ELSE tasks

CancelledExecs ==
    [e \in Slots |->
        IF CancelDue /\ exec[e].owner = "burst" /\ exec[e].task = burst_task
        THEN IdleExec ELSE exec[e]]

Aborted == \E e \in Slots : CancelledExecs[e] # exec[e]

\* The new task runs to its first suspension: end_time is taken, the loop
\* condition is tested and the task sleeps.
NewBurstTask == BurstLoop([NoTask EXCEPT !.end_time = time + BurstDuration])

ControlAction_Rescheduling(join) ==
    /\ setup.st = "running"
    /\ burst_task < MaxTasks
    /\ control' = [result |-> "returned", seq |-> ~control.seq]
    /\ intervals' = [intervals EXCEPT !.scan_interval = intervals.burst_interval]
    /\ LET n == burst_task + 1
           ex == CancelledExecs
           free == {e \in Slots : ex[e].pc = "idle"}
       IN /\ tasks' = [CancelledTasks EXCEPT ![n] = NewBurstTask]
          /\ burst_task' = n
          /\ last_enable' = time
          /\ IF join
             THEN /\ \E e \in Slots : ex[e].pc # "idle"
                  /\ exec' = ex
             ELSE /\ free # {}
                  /\ exec' = Begin(ex, CHOOSE e \in free : TRUE, "request", 0)
          /\ IF Aborted
             THEN /\ outcome' = [err |-> "none", signal |-> "CancelledError",
                                 at |-> exec[CHOOSE e \in Slots : CancelledExecs[e] # exec[e]].pc]
                  /\ flip' = ~flip
             ELSE UNCHANGED << outcome, flip >>
    /\ UNCHANGED << now, coordVars, ghostVars, repair, setup, options, optflow,
                    entries, flows >>

\* A control action (async_press, async_turn_on/off, async_select_option)
\* whose client call returned: enable_burst_mode(), then
\* "await self.coordinator.async_request_refresh()".  join = the library
\* coalesces the request into an update already in flight.
ControlAction(join) ==
    /\ setup.st = "running"
    /\ burst_task < MaxTasks
    /\ control' = [result |-> "returned", seq |-> ~control.seq]
    /\ LET n == burst_task + 1
           ex == CancelledExecs
           free == {e \in Slots : ex[e].pc = "idle"}
       IN /\ tasks' = [CancelledTasks EXCEPT ![n] = NewBurstTask]
          /\ burst_task' = n
          /\ last_enable' = time
          /\ IF join
             THEN /\ \E e \in Slots : ex[e].pc # "idle"
                  /\ exec' = ex
             ELSE /\ free # {}
                  /\ exec' = Begin(ex, CHOOSE e \in free : TRUE, "request", 0)
          /\ IF Aborted
             THEN /\ outcome' = [err |-> "none", signal |-> "CancelledError",
                                 at |-> exec[CHOOSE e \in Slots : CancelledExecs[e] # exec[e]].pc]
                  /\ flip' = ~flip
             ELSE UNCHANGED << outcome, flip >>
    /\ UNCHANGED << now, coordVars, ghostVars, repair, envVars >>

\* asyncio.sleep(burst_interval) is over: "await self.async_request_refresh()".
BurstTick(t, join) ==
    /\ tasks[t].st = "sleep"
    /\ time >= tasks[t].wake
    /\ IF join
       THEN /\ InFlight # {}
            /\ tasks' = [tasks EXCEPT ![t] = BurstLoop(@)]
            /\ UNCHANGED exec
       ELSE /\ FreeSlots # {}
            /\ exec' = Begin(exec, CHOOSE e \in FreeSlots : TRUE, "burst", t)
            /\ tasks' = [tasks EXCEPT ![t].st = "refresh"]
    /\ UNCHANGED << now, coordVars, ghostVars, burst_task, outcome, flip, last_enable, control, envVars, repair >>

async_refresh_static_data_NotInvalidating(join) ==
    /\ forced' = TRUE
    /\ LET Forced(ex) == [e \in Slots |-> [ex[e] EXCEPT !.within = FALSE]]
       IN IF join
          THEN /\ InFlight # {}
               /\ exec' = Forced(exec)
          ELSE /\ FreeSlots # {}
               /\ exec' = Forced(Begin(exec, CHOOSE e \in FreeSlots : TRUE, "request", 0))
    /\ UNCHANGED << now, coordVars, tasks, burst_task, outcome, flip, conn_run,
                    raised_in_run, alert_runs, static_ok_time, static_call_time,
                    auth_failed, last_enable, control, envVars, repair, fetched >>

\* async_refresh_static_data(): zero the timestamp, request a refresh.
async_refresh_static_data(join) ==
    /\ last_static_update' = 0
    /\ forced' = TRUE
    /\ LET Forced(ex) == [e \in Slots |-> [ex[e] EXCEPT !.within = FALSE]]
       IN IF join
          THEN /\ InFlight # {}
               /\ exec' = Forced(exec)
          ELSE /\ FreeSlots # {}
               /\ exec' = Forced(Begin(exec, CHOOSE e \in FreeSlots : TRUE, "request", 0))
    /\ UNCHANGED << now, connection_errors, static_data_cache, data, issue, registry, tasks,
                    burst_task, outcome, flip, conn_run, raised_in_run, alert_runs,
                    static_ok_time, static_call_time, auth_failed, last_enable, control, envVars, repair,
                    fetched >>

\* The periodic timer of update_interval is registered.
TickArmed == setup.st = "running" /\ ~auth_failed

\* The periodic timer registered with update_interval fires.  The refresh loop
\* halts once an update has raised ConfigEntryAuthFailed, and the timer is
\* removed with the listeners of the entities when the platforms are unloaded.
ScheduledTick ==
    /\ TickArmed
    /\ FreeSlots # {}
    /\ exec' = Begin(exec, CHOOSE e \in FreeSlots : TRUE, "sched", 0)
    /\ UNCHANGED << now, coordVars, ghostVars, tasks, burst_task, outcome, flip,
                    last_enable, control, envVars, repair >>

\* ------------------------------------------------------------ repair flow
\* The error key _async_test_connection returns for the exception it caught.
ErrorKey(err) ==
    CASE err = "AuthenticationError" -> "invalid_auth"
      [] err = "ConnectionError" -> "cannot_connect"
      [] OTHER -> "unknown"

\* The user opens the fix flow of the issue: async_step_init, then
\* async_step_confirm(None), which shows the form.
RepairStart ==
    /\ issue # 0
    /\ repair.st \in {"none", "done"}
    /\ repair.reloads < MaxReloads
    /\ repair' = [repair EXCEPT !.st = "form", !.input = 0, !.error = "none",
                                !.tested = "none"]
    /\ UNCHANGED << now, coordVars, ghostVars, exec, tasks, burst_task, outcome, flip,
                    last_enable, control, envVars >>

\* async_step_confirm(user_input) with credentials c, up to its suspension in
\* _async_test_connection (the configuration entry exists).
RepairSubmit(c) ==
    /\ repair.st = "form"
    /\ repair' = [repair EXCEPT !.st = "testing", !.input = c, !.error = "none"]
    /\ UNCHANGED << now, coordVars, ghostVars, exec, tasks, burst_task, outcome, flip,
                    last_enable, control, envVars >>

RepairTestRaises_Completing(err) ==
    /\ repair.st = "testing"
    /\ repair' = [repair EXCEPT !.st = "done", !.tested = err, !.error = "none"]
    /\ issue' = 0
    /\ registry' = IssueRemoved(registry)
    /\ UNCHANGED << now, connection_errors, last_static_update, static_data_cache,
                    data, ghostVars, exec, tasks, burst_task, outcome, flip,
                    last_enable, control, envVars >>

\* async_connect() or async_disconnect() of the test client raises err: the
\* form is shown again with the error key.
RepairTestRaises(err) ==
    /\ repair.st = "testing"
    /\ repair' = [repair EXCEPT !.st = "form", !.tested = err, !.error = ErrorKey(err)]
    /\ UNCHANGED << now, coordVars, ghostVars, exec, tasks, burst_task, outcome, flip,
                    last_enable, control, envVars >>

\* The connection test returns None: async_update_entry with the entered
\* credentials, async_reload, async_create_entry.  The reload replaces the
\* coordinator of the entry by a newly constructed one (the state of Init; the
\* old coordinator, its executions and its burst task are outside the state
\* from here on).  The repairs framework removes the issue of a fix flow that
\* ends with async_create_entry.
RepairTestReturns ==
    /\ repair.st = "testing"
    /\ repair' = [repair EXCEPT !.st = "done", !.tested = "ok", !.error = "none",
                                !.creds = repair.input, !.reloads = @ + 1]
    /\ issue' = 0
    /\ connection_errors' = 0
    /\ last_static_update' = 0
    /\ static_data_cache' = None
    /\ data' = None
    /\ exec' = [e \in Slots |-> IdleExec]
    /\ tasks' = [t \in TaskIds |-> NoTask]
    /\ burst_task' = 0
    /\ outcome' = NoOutcome
    /\ conn_run' = 0
    /\ raised_in_run' = 0
    /\ alert_runs' = 0
    /\ static_ok_time' = 0
    /\ static_call_time' = 0
    /\ forced' = FALSE
    /\ auth_failed' = FALSE
    /\ last_enable' = 0
    /\ fetched' = [static |-> 0, dynamic |-> 0]
    /\ registry' = IssueRemoved(registry)
    /\ control' = NoControl
    /\ intervals' = CoordinatorIntervals(options)
    /\ UNCHANGED << now, flip, setup, options, optflow, entries, flows >>

\* --------------------------------------------- control action that fails
ControlActionRaises_Enabling ==
    /\ setup.st = "running"
    /\ burst_task < MaxTasks
    /\ control' = [result |-> "raised", seq |-> ~control.seq]
    /\ tasks' = [CancelledTasks EXCEPT ![burst_task + 1] = NewBurstTask]
    /\ burst_task' = burst_task + 1
    /\ last_enable' = time
    /\ exec' = CancelledExecs
    /\ IF Aborted
       THEN /\ outcome' = [err |-> "none", signal |-> "CancelledError",
                           at |-> exec[CHOOSE e \in Slots : CancelledExecs[e] # exec[e]].pc]
            /\ flip' = ~flip
       ELSE UNCHANGED << outcome, flip >>
    /\ UNCHANGED << now, coordVars, ghostVars, repair, envVars >>

\* A control action (async_press, async_turn_on/off, async_select_option)
\* whose client call raises: the exception leaves the handler at its first
\* statement, before enable_burst_mode() and async_request_refresh().
ControlActionRaises ==
    /\ setup.st = "running"
    /\ control' = [result |-> "raised", seq |-> ~control.seq]
    /\ UNCHANGED << now, coordVars, ghostVars, exec, tasks, burst_task, outcome, flip,
                    last_enable, repair, envVars >>

\* ------------------------------------------------------------------ setup
\* What async_setup_entry raises for the error async_connect() raised.
SetupSignal(err) ==
    CASE err = "AuthenticationError" -> "ConfigEntryAuthFailed"
      [] err = "ConnectionError" -> "ConfigEntryNotReady"
      [] OTHER -> err

\* async_setup_entry up to "await client.async_connect()"; the platform calls
\* it for a new entry, and again for an entry whose setup was not ready.
SetupStart ==
    /\ \/ setup.st = "none"
       \/ setup.st = "failed" /\ setup.signal = "ConfigEntryNotReady"
    /\ setup' = [NotSetUp EXCEPT !.st = "connecting", !.client = "new"]
    /\ UNCHANGED << now, coordVars, ghostVars, exec, tasks, burst_task, outcome, flip,
                    last_enable, repair, control, intervals, options, optflow,
                    entries, flows >>

SetupConnectRaises_Skipping(err) ==
    /\ setup.st = "connecting"
    /\ setup' = [setup EXCEPT !.st = "failed", !.err = err, !.signal = SetupSignal(err)]
    /\ UNCHANGED << now, coordVars, ghostVars, exec, tasks, burst_task, outcome, flip,
                    last_enable, repair, control, intervals, options, optflow,
                    entries, flows >>

\* async_connect() raises err: the two except clauses suspend in
\* "await client.async_disconnect()", any other error leaves async_setup_entry.
SetupConnectRaises(err) ==
    /\ setup.st = "connecting"
    /\ setup' = IF err \in {"AuthenticationError", "ConnectionError"}
                THEN [setup EXCEPT !.st = "disconnecting", !.err = err]
                ELSE [setup EXCEPT !.st = "failed", !.err = err, !.signal = SetupSignal(err)]
    /\ UNCHANGED << now, coordVars, ghostVars, exec, tasks, burst_task, outcome, flip,
                    last_enable, repair, control, intervals, options, optflow,
                    entries, flows >>

\* async_disconnect() returns in an except clause: raise ConfigEntryAuthFailed
\* or ConfigEntryNotReady.
SetupDisconnectReturns ==
    /\ setup.st = "disconnecting"
    /\ setup' = [setup EXCEPT !.st = "failed", !.client = "closed",
                              !.signal = SetupSignal(setup.err)]
    /\ UNCHANGED << now, coordVars, ghostVars, exec, tasks, burst_task, outcome, flip,
                    last_enable, repair, control, intervals, options, optflow,
                    entries, flows >>

\* async_connect() returns: the coordinator is constructed (its attributes are
\* those of Init, its intervals those of the options) and
\* async_config_entry_first_refresh() runs the first update.
SetupConnectReturns ==
    /\ setup.st = "connecting"
    /\ setup' = [setup EXCEPT !.st = "running", !.client = "connected",
                              !.coordinator = TRUE]
    /\ intervals' = CoordinatorIntervals(options)
    /\ exec' = Begin(exec, CHOOSE e \in Slots : TRUE, "first", 0)
    /\ UNCHANGED << now, coordVars, ghostVars, tasks, burst_task, outcome, flip,
                    last_enable, repair, control, options, optflow, entries, flows >>

\* ----------------------------------------------------------------- unload
\* async_unload_entry up to "await entry.runtime_data.client.async_disconnect()":
\* the platforms were unloaded (unload_ok), which removes the entities.
UnloadPlatforms ==
    /\ setup.st = "running"
    /\ setup' = [setup EXCEPT !.st = "unloading"]
    /\ UNCHANGED << now, coordVars, ghostVars, exec, tasks, burst_task, outcome, flip,
                    last_enable, repair, control, intervals, options, optflow,
                    entries, flows >>

\* async_disconnect() returns and async_unload_entry returns True.  The
\* coordinator, its burst task and an update in flight are left as they are.
UnloadDisconnectReturns ==
    /\ setup.st = "unloading"
    /\ setup' = [setup EXCEPT !.st = "unloaded", !.client = "closed"]
    /\ UNCHANGED << now, coordVars, ghostVars, exec, tasks, burst_task, outcome, flip,
                    last_enable, repair, control, intervals, options, optflow,
                    entries, flows >>

\* ----------------------------------------------------------- options flow
\* SupermicroRedfishOptionsFlow.async_step_init with the values inp of the
\* form: the schema rejects them, or the handler stores what the schema hands
\* it; the update listener then reloads the entry, which constructs a new
\* coordinator from the stored options.
OptionsSubmit(inp) ==
    /\ setup.st = "running"
    /\ IF SchemaAccepts(inp)
       THEN /\ optflow' = [input |-> Some(inp), result |-> "create_entry",
                           seq |-> ~optflow.seq]
            /\ options' = Some(SchemaOutput(inp))
            /\ intervals' = CoordinatorIntervals(Some(SchemaOutput(inp)))
            /\ connection_errors' = 0
            /\ last_static_update' = 0
            /\ static_data_cache' = None
            /\ data' = None
            /\ exec' = [e \in Slots |-> IdleExec]
            /\ tasks' = [t \in TaskIds |-> NoTask]
            /\ burst_task' = 0
            /\ outcome' = NoOutcome
            /\ conn_run' = 0
            /\ raised_in_run' = 0
            /\ alert_runs' = 0
            /\ static_ok_time' = 0
            /\ static_call_time' = 0
            /\ forced' = FALSE
            /\ auth_failed' = FALSE
            /\ last_enable' = 0
            /\ fetched' = [static |-> 0, dynamic |-> 0]
            /\ control' = NoControl
            /\ UNCHANGED << now, issue, registry, flip, repair, setup, entries, flows >>
       ELSE /\ optflow' = [input |-> Some(inp), result |-> "form",
                           seq |-> ~optflow.seq]
            /\ UNCHANGED << now, coordVars, ghostVars, exec, tasks, burst_task, outcome,
                            flip, last_enable, repair, control, intervals, setup,
                            options, entries, flows >>

\* ------------------------------------------------- user and reconfigure flow
\* _async_abort_entries_match({CONF_HOST: host}): an entry with that host exists.
EntriesMatch(host) == \E e \in EntryIds : entries[e] # None /\ entries[e][1].host = host

Existing == {e \in EntryIds : entries[e] # None}

\* User flows that may still create an entry.
Creating == {f \in FlowIds : flows[f].kind = "user" /\ flows[f].st \in {"form", "testing", "title"}}

Ended_(fl, result) == [fl EXCEPT !.st = result, !.input = None, !.error = "none"]

\* async_step_user(None): the form is shown.
UserStart(f) ==
    /\ flows[f].kind = "none"
    /\ Cardinality(Existing) + Cardinality(Creating) < MaxFlows
    /\ flows' = [flows EXCEPT ![f] = [NoFlow EXCEPT !.kind = "user", !.st = "form"]]
    /\ UNCHANGED << now, coordVars, ghostVars, exec, tasks, burst_task, outcome, flip,
                    last_enable, repair, control, intervals, setup, options, optflow,
                    entries >>

\* async_step_user(user_input) up to its suspension in _async_test_connection:
\* the flow aborts when an entry with the host exists.
UserSubmit(f, inp) ==
    /\ flows[f].kind = "user"
    /\ flows[f].st = "form"
    /\ flows' = IF EntriesMatch(inp.host)
                THEN [flows EXCEPT ![f] = Ended_([@ EXCEPT !.tested = "none"], "abort")]
                ELSE [flows EXCEPT ![f].st = "testing", ![f].input = Some(inp),
                                   ![f].error = "none", ![f].tested = "none"]
    /\ UNCHANGED << now, coordVars, ghostVars, exec, tasks, burst_task, outcome, flip,
                    last_enable, repair, control, intervals, setup, options, optflow,
                    entries >>

\* async_step_reconfigure: the form of entry e is shown.
ReconfigureStart(f, e) ==
    /\ flows[f].kind = "none"
    /\ entries[e] # None
    /\ flows' = [flows EXCEPT ![f] = [NoFlow EXCEPT !.kind = "reconfigure", !.st = "form",
                                                    !.entry = e]]
    /\ UNCHANGED << now, coordVars, ghostVars, exec, tasks, burst_task, outcome, flip,
                    last_enable, repair, control, intervals, setup, options, optflow,
                    entries >>

\* async_step_reconfigure_confirm(user_input) up to its suspension in
\* _async_test_connection: the flow aborts when the host was changed to one
\* that an entry has.
ReconfigureSubmit(f, inp) ==
    /\ flows[f].kind = "reconfigure"
    /\ flows[f].st = "form"
    /\ flows' = IF /\ inp.host # entries[flows[f].entry][1].host
                   /\ EntriesMatch(inp.host)
                THEN [flows EXCEPT ![f] = Ended_([@ EXCEPT !.tested = "none"], "abort")]
                ELSE [flows EXCEPT ![f].st = "testing", ![f].input = Some(inp),
                                   ![f].error = "none", ![f].tested = "none"]
    /\ UNCHANGED << now, coordVars, ghostVars, exec, tasks, burst_task, outcome, flip,
                    last_enable, repair, control, intervals, setup, options, optflow,
                    entries >>

FlowTestRaises_Creating(f, err) ==
    /\ flows[f].st = "testing"
    /\ flows' = [flows EXCEPT ![f].st = IF flows[f].kind = "user" THEN "title" ELSE "form",
                              ![f].tested = err, ![f].error = ErrorKey(err)]
    /\ UNCHANGED << now, coordVars, ghostVars, exec, tasks, burst_task, outcome, flip,
                    last_enable, repair, control, intervals, setup, options, optflow,
                    entries >>

\* async_connect() or async_disconnect() of the test client raises err: the
\* form is shown again with the error key.
FlowTestRaises(f, err) ==
    /\ flows[f].st = "testing"
    /\ flows' = [flows EXCEPT ![f].st = "form", ![f].input = None, ![f].tested = err,
                              ![f].error = ErrorKey(err)]
    /\ UNCHANGED << now, coordVars, ghostVars, exec, tasks, burst_task, outcome, flip,
                    last_enable, repair, control, intervals, setup, options, optflow,
                    entries >>

\* The connection test returns None.  The user flow suspends in
\* _async_get_title; the reconfigure flow stores the input in its entry
\* (async_update_reload_and_abort).
FlowTestReturns(f) ==
    /\ flows[f].st = "testing"
    /\ IF flows[f].kind = "user"
       THEN /\ flows' = [flows EXCEPT ![f].st = "title", ![f].tested = "ok"]
            /\ UNCHANGED entries
       ELSE /\ flows' = [flows EXCEPT ![f] = Ended_([@ EXCEPT !.tested = "ok"], "abort")]
            /\ entries' = [entries EXCEPT ![flows[f].entry] = flows[f].input]
    /\ UNCHANGED << now, coordVars, ghostVars, exec, tasks, burst_task, outcome, flip,
                    last_enable, repair, control, intervals, setup, options, optflow >>

\* _async_get_title returns (it catches every error of its client):
\* async_create_entry(title, data=user_input) adds an entry.
UserCreateEntry(f) ==
    /\ flows[f].kind = "user"
    /\ flows[f].st = "title"
    /\ \E e \in EntryIds :
          /\ entries[e] = None
          /\ \A d \in EntryIds : d < e => entries[d] # None
          /\ entries' = [entries EXCEPT ![e] = flows[f].input]
    /\ flows' = [flows EXCEPT ![f] = Ended_(@, "create_entry")]
    /\ UNCHANGED << now, coordVars, ghostVars, exec, tasks, burst_task, outcome, flip,
                    last_enable, repair, control, intervals, setup, options, optflow >>

\* The flow manager drops a flow that has ended.
FlowClose(f) ==
    /\ flows[f].st \in {"create_entry", "abort"}
    /\ flows' = [flows EXCEPT ![f] = NoFlow]
    /\ UNCHANGED << now, coordVars, ghostVars, exec, tasks, burst_task, outcome, flip,
                    last_enable, repair, control, intervals, setup, options, optflow,
                    entries >>

\* ---------------------------------------------------------- specification
Next ==
    \/ Tick
    \/ ScheduledTick
    \/ \E join \in BOOLEAN : ControlAction(join)
    \/ \E join \in BOOLEAN : async_refresh_static_data(join)
    \/ \E t \in TaskIds, join \in BOOLEAN : BurstTick(t, join)
    \/ \E e \in Slots, d \in 1 .. NumDynamic : DynamicReturns(e, d)
    \/ \E e \in Slots, err \in Errors : DynamicRaises(e, err)
    \/ \E e \in Slots, v \in 1 .. NumStatic : StaticReturns(e, v)
    \/ \E e \in Slots, err \in Errors : StaticRaises(e, err)
    \/ RepairStart
    \/ \E c \in 1 .. NumCreds : RepairSubmit(c)
    \/ \E err \in Errors : RepairTestRaises(err)
    \/ RepairTestReturns
    \/ ControlActionRaises
    \/ SetupStart
    \/ \E err \in Errors : SetupConnectRaises(err)
    \/ SetupDisconnectReturns
    \/ SetupConnectReturns
    \/ UnloadPlatforms
    \/ UnloadDisconnectReturns
    \/ \E inp \in FormInputs : OptionsSubmit(inp)
    \/ \E f \in FlowIds : UserStart(f)
    \/ \E f \in FlowIds, inp \in FlowInputs : UserSubmit(f, inp)
    \/ \E f \in FlowIds, e \in EntryIds : ReconfigureStart(f, e)
    \/ \E f \in FlowIds, inp \in FlowInputs : ReconfigureSubmit(f, inp)
    \/ \E f \in FlowIds, err \in Errors : FlowTestRaises(f, err)
    \/ \E f \in FlowIds : FlowTestReturns(f)
    \/ \E f \in FlowIds : UserCreateEntry(f)
    \/ \E f \in FlowIds : FlowClose(f)

Spec == Init /\ [][Next]_vars

\* The static cache against the clock: every trigger but the control actions,
\* one dynamic payload, fetches that return or fail with an unexpected error.
NextCache ==
    \/ Tick
    \/ ScheduledTick
    \/ \E join \in BOOLEAN : async_refresh_static_data(join)
    \/ \E e \in Slots : DynamicReturns(e, 1)
    \/ \E e \in Slots : DynamicRaises(e, "Exception")
    \/ \E e \in Slots, v \in 1 .. NumStatic : StaticReturns(e, v)
    \/ \E e \in Slots : StaticRaises(e, "Exception")

SpecCache == Init /\ [][NextCache]_vars

\* The error handling: every outcome of both fetches, one payload, the clock
\* standing still (static fetches are those of the empty cache and of forced
\* refreshes).
NextErrors ==
    \/ ScheduledTick
    \/ \E join \in BOOLEAN : async_refresh_static_data(join)
    \/ \E e \in Slots : DynamicReturns(e, 1)
    \/ \E e \in Slots, err \in Errors : DynamicRaises(e, err)
    \/ \E e \in Slots : StaticReturns(e, 1)
    \/ \E e \in Slots, err \in Errors : StaticRaises(e, err)

SpecErrors == Init /\ [][NextErrors]_vars

\* The repair flow beside the scheduled refreshes: one payload, fetches that
\* return or fail (the static one with ConnectionError), the clock standing
\* still.
NextRepair ==
    \/ ScheduledTick
    \/ \E e \in Slots : DynamicReturns(e, 1)
    \/ \E e \in Slots, err \in Errors : DynamicRaises(e, err)
    \/ \E e \in Slots : StaticReturns(e, 1)
    \/ \E e \in Slots : StaticRaises(e, "ConnectionError")
    \/ RepairStart
    \/ \E c \in 1 .. NumCreds : RepairSubmit(c)
    \/ \E err \in Errors : RepairTestRaises(err)
    \/ RepairTestReturns

SpecRepair == Init /\ [][NextRepair]_vars

\* The merge: every payload of both fetches, fetches that return or fail with
\* an unexpected error, the clock standing still.
NextMerge ==
    \/ ScheduledTick
    \/ \E join \in BOOLEAN : async_refresh_static_data(join)
    \/ \E e \in Slots, d \in 1 .. NumDynamic : DynamicReturns(e, d)
    \/ \E e \in Slots : DynamicRaises(e, "Exception")
    \/ \E e \in Slots, v \in 1 .. NumStatic : StaticReturns(e, v)
    \/ \E e \in Slots : StaticRaises(e, "Exception")

SpecMerge == Init /\ [][NextMerge]_vars

\* Burst mode: control actions, burst tasks and the clock, one payload, fetches
\* that return or fail with AuthenticationError.
NextBurst ==
    \/ Tick
    \/ ScheduledTick
    \/ \E join \in BOOLEAN : ControlAction(join)
    \/ \E t \in TaskIds, join \in BOOLEAN : BurstTick(t, join)
    \/ \E e \in Slots : DynamicReturns(e, 1)
    \/ \E e \in Slots : DynamicRaises(e, "AuthenticationError")
    \/ \E e \in Slots : StaticReturns(e, 1)

SpecBurst == Init /\ [][NextBurst]_vars

\* The runs of SpecBurst in which no request arrives while an update is in
\* flight (but for the update a control action tears down with the burst task
\* it cancels): runs that do not depend on how the library treats overlapping
\* requests.
NoOverlap(ex) == \A e \in Slots : ex[e].pc = "idle"

\* ... with every fetch returning.
NextBurstHealthy ==
    \/ Tick
    \/ NoOverlap(exec) /\ ScheduledTick
    \/ NoOverlap(CancelledExecs) /\ ControlAction(FALSE)
    \/ \E t \in TaskIds : NoOverlap(exec) /\ BurstTick(t, FALSE)
    \/ \E e \in Slots : DynamicReturns(e, 1)
    \/ \E e \in Slots : StaticReturns(e, 1)

SpecBurstHealthy == Init /\ [][NextBurstHealthy]_vars

\* ... with fetches that return or fail with AuthenticationError.
NextBurstSerial ==
    \/ NextBurstHealthy
    \/ \E e \in Slots : DynamicRaises(e, "AuthenticationError")

SpecBurstSerial == Init /\ [][NextBurstSerial]_vars

\* Burst mode to its end, in runs without overlapping requests: control
\* actions up to MaxTime, the clock up to the horizon, fetches that return or
\* fail with an unexpected error.  Time passes, the event loop runs a task
\* whose sleep is over, and every fetch that does not fail returns.
NextBurstLive ==
    \/ TickToHorizon
    \/ now <= MaxTime /\ NoOverlap(CancelledExecs) /\ ControlAction(FALSE)
    \/ \E t \in TaskIds : NoOverlap(exec) /\ BurstTick(t, FALSE)
    \/ \E e \in Slots : DynamicReturns(e, 1)
    \/ \E e \in Slots : DynamicRaises(e, "Exception")
    \/ \E e \in Slots : StaticReturns(e, 1)

SpecBurstLive ==
    /\ Init
    /\ [][NextBurstLive]_vars
    /\ WF_vars(TickToHorizon)
    /\ \A t \in TaskIds : WF_vars(NoOverlap(exec) /\ BurstTick(t, FALSE))
    /\ \A e \in Slots : WF_vars(DynamicReturns(e, 1))
    /\ \A e \in Slots : WF_vars(StaticReturns(e, 1))

\* The control actions, in runs without overlapping requests: client calls
\* that return or raise, burst tasks and the clock, every fetch returning.
NextControl ==
    \/ Tick
    \/ NoOverlap(CancelledExecs) /\ ControlAction(FALSE)
    \/ ControlActionRaises
    \/ \E t \in TaskIds : NoOverlap(exec) /\ BurstTick(t, FALSE)
    \/ \E e \in Slots : DynamicReturns(e, 1)
    \/ \E e \in Slots : StaticReturns(e, 1)

SpecControl == Init /\ [][NextControl]_vars

\* The coordinator serves refresh requests until the entry is unloaded (the
\* library shuts the coordinator of an entry down once async_unload_entry has
\* returned); the burst task and an update in flight are not cancelled by
\* async_unload_entry.
Serving == setup.st # "unloaded"

\* The unload of the entry beside burst mode, in runs without overlapping
\* requests: control actions, burst tasks and the clock, one payload, a dynamic
\* fetch that returns or fails with ConnectionError, the unload of the
\* platforms and the disconnect of the client.
NextTeardown ==
    \/ Tick
    \/ NoOverlap(CancelledExecs) /\ ControlAction(FALSE)
    \/ \E t \in TaskIds : Serving /\ NoOverlap(exec) /\ BurstTick(t, FALSE)
    \/ \E e \in Slots : DynamicReturns(e, 1)
    \/ \E e \in Slots : DynamicRaises(e, "ConnectionError")
    \/ \E e \in Slots : StaticReturns(e, 1)
    \/ UnloadPlatforms
    \/ UnloadDisconnectReturns

SpecTeardown == Init /\ [][NextTeardown]_vars

\* The setup of the entry: every outcome of async_connect(), the retry of a
\* setup that was not ready, and the updates of the coordinator of a setup that
\* connected, every fetch returning.
NextSetup ==
    \/ Tick
    \/ SetupStart
    \/ \E err \in Errors : SetupConnectRaises(err)
    \/ SetupDisconnectReturns
    \/ SetupConnectReturns
    \/ ScheduledTick
    \/ \E e \in Slots, d \in 1 .. NumDynamic : DynamicReturns(e, d)
    \/ \E e \in Slots, v \in 1 .. NumStatic : StaticReturns(e, v)

SpecSetup == InitSetup /\ [][NextSetup]_vars

\* The user and reconfigure flows, several in progress at once, every outcome
\* of their connection tests.
NextFlows ==
    \/ \E f \in FlowIds : UserStart(f)
    \/ \E f \in FlowIds, inp \in FlowInputs : UserSubmit(f, inp)
    \/ \E f \in FlowIds, e \in EntryIds : ReconfigureStart(f, e)
    \/ \E f \in FlowIds, inp \in FlowInputs : ReconfigureSubmit(f, inp)
    \/ \E f \in FlowIds, err \in Errors : FlowTestRaises(f, err)
    \/ \E f \in FlowIds : FlowTestReturns(f)
    \/ \E f \in FlowIds : UserCreateEntry(f)
    \/ \E f \in FlowIds : FlowClose(f)

SpecFlows == InitFlows /\ [][NextFlows]_vars

\* The user flows alone.
NextUserFlows ==
    \/ \E f \in FlowIds : UserStart(f)
    \/ \E f \in FlowIds, inp \in FlowInputs : UserSubmit(f, inp)
    \/ \E f \in FlowIds, err \in Errors : FlowTestRaises(f, err)
    \/ \E f \in FlowIds : FlowTestReturns(f)
    \/ \E f \in FlowIds : UserCreateEntry(f)
    \/ \E f \in FlowIds : FlowClose(f)

SpecUserFlows == InitFlows /\ [][NextUserFlows]_vars

\* The options form: submissions at and around the ends of every range.
NextOptions ==
    \E inp \in FormInputs : OptionsSubmit(inp)

SpecOptions == Init /\ [][NextOptions]_vars

\* ------------------------------------------------------------------ claims
Failures == {"ConfigEntryAuthFailed", "UpdateFailed(connection_failed)",
             "UpdateFailed(Unexpected error)"}

\* An execution ended in this step.
Ended == flip' # flip

\* The execution in slot e took the static decision in this step: its dynamic
\* fetch returned, and it either went on to fetch_static or returned the data
\* built from the cache.
Decided(e) ==
    /\ exec[e].pc = "fetch_dynamic"
    /\ \/ exec'[e].pc = "fetch_static"
       \/ exec'[e].pc = "idle" /\ Ended /\ outcome'.signal = "returned"

\* C3 as stated: a refresh called within static_max_age seconds of the call of
\* the refresh that last fetched the static data (no forced refresh in
\* between) does not invoke fetch_static.
C3_Original ==
    \A e \in Slots : ~(exec[e].pc = "fetch_static" /\ exec[e].within)

\* C3 amended: the decision is taken when fetch_dynamic returns.  If at that
\* moment at most static_max_age seconds have passed since the last successful
\* static fetch ended (and no forced refresh was requested since), the refresh
\* does not invoke fetch_static and returns the static attributes of the cache;
\* if more than static_max_age seconds have passed, it invokes fetch_static.
C3_StaticCaching ==
    [][\A e \in Slots : Decided(e) =>
          /\ (static_ok_time # 0 /\ ~forced /\ time - static_ok_time <= StaticInterval)
                => /\ exec'[e].pc = "idle"
                   /\ \A f \in StaticFields : data'[1][f] = static_data_cache[1][f]
                   /\ static_data_cache' = static_data_cache
          /\ (time - static_ok_time > StaticInterval)
                => exec'[e].pc = "fetch_static"]_vars

\* C3 witness: the latest refresh to end reused the cache, and a later one is
\* refetching the static data because the max-age has run out.
C3_Witness ==
    /\ outcome.signal = "returned" /\ outcome.at = "fetch_dynamic"
    /\ static_ok_time # 0 /\ ~forced
    /\ time - static_ok_time = StaticInterval + 1
    /\ \E e \in Slots : exec[e].pc = "fetch_static" /\ exec[e].called > static_ok_time

\* C4: the first and the second ConnectionError of a run create no issue, the
\* third creates it (exactly one creation so far, error_count 3); a refresh
\* that returns leaves the counter at zero, so the next run counts afresh.
C4_ErrorCounting ==
    /\ conn_run \in 1 .. (CONNECTION_ERROR_THRESHOLD - 1) => raised_in_run = 0
    /\ conn_run = CONNECTION_ERROR_THRESHOLD
          => raised_in_run = 1 /\ issue = CONNECTION_ERROR_THRESHOLD
    /\ outcome.signal = "returned" => connection_errors = 0 /\ raised_in_run = 0
    /\ connection_errors = conn_run

\* C4 witness: a second run of three failures, after a success that followed
\* a run which had raised the issue, has raised it again.
C4_Witness ==
    /\ alert_runs = 2
    /\ conn_run = CONNECTION_ERROR_THRESHOLD
    /\ raised_in_run = 1
    /\ data # None

\* C5: an execution that ends with AuthenticationError, ConnectionError or any
\* other error leaves coordinator.data as it was and raises
\* ConfigEntryAuthFailed or UpdateFailed to its caller.
C5_StaleOnFailure ==
    [][(Ended /\ outcome'.err \in Errors)
          => (data' = data /\ outcome'.signal \in Failures)]_vars

\* C5 witness: the data is populated and the latest execution failed in
\* fetch_static.
C5_Witness ==
    /\ data # None
    /\ outcome.err \in Errors
    /\ outcome.at = "fetch_static"

\* C6: an execution that ends with AuthenticationError leaves the counter and
\* the issue registry as they were.
C6_AuthNonCounting ==
    [][(Ended /\ outcome'.err = "AuthenticationError")
          => (connection_errors' = connection_errors /\ issue' = issue)]_vars

\* C6 witness: an AuthenticationError arrived with the counter one below the
\* threshold, and no issue exists.
C6_Witness ==
    /\ outcome.err = "AuthenticationError"
    /\ connection_errors = CONNECTION_ERROR_THRESHOLD - 1
    /\ issue = 0

\* C7 as stated: once an execution has raised ConfigEntryAuthFailed, neither
\* the scheduled tick nor a burst task that was running at that moment starts
\* another execution.
C7_Original ==
    \A e \in Slots : ~exec[e].after_auth

\* C8: at most one burst task is alive, it is the one enable_burst_mode()
\* created last, and its end_time is the time of that call plus burst_duration.
C8_BurstRestart ==
    /\ Cardinality({t \in TaskIds : Alive(t)}) <= 1
    /\ \A t \in TaskIds : Alive(t) =>
          /\ t = burst_task
          /\ tasks[t].end_time = last_enable + BurstDuration

\* C8 witness: enable_burst_mode() was called while the first task was alive,
\* at a later time than the first call; the first task is cancelled and the
\* second one is alive.
C8_Witness ==
    /\ burst_task = 2
    /\ tasks[1].st = "cancelled"
    /\ Alive(2)
    /\ last_enable > Epoch

\* C9 as stated: no execution is torn down by the cancellation of the burst
\* task; every execution that started runs to its return or to its error.
C9_Original ==
    outcome.signal # "CancelledError"

\* C10 as stated: no burst task starts an execution after its end_time.
C10_Original ==
    \A e \in Slots : ~exec[e].late

\* C11: a burst task that is alive is eventually over: its loop has ended
\* (done), unless enable_burst_mode() was called again and created another
\* task in its place.
C11_BurstExpires ==
    \A t \in TaskIds : Alive(t) ~> (tasks[t].st = "done" \/ burst_task # t)

\* C11 witness: the task created by the latest enable_burst_mode() call left
\* its loop by itself, burst_duration or more after the call.
C11_Witness ==
    /\ burst_task # 0
    /\ tasks[burst_task].st = "done"
    /\ time >= last_enable + BurstDuration

\* C12: the counter is never negative and equals the number of executions that
\* failed with ConnectionError since the latest one that returned (or since
\* construction): an execution that returns sets it to 0, one that fails with
\* ConnectionError adds exactly 1 whichever fetch raised it, and no other step
\* changes it.
C12_CounterMeaning ==
    /\ [](connection_errors >= 0 /\ connection_errors = conn_run)
    /\ [][connection_errors' =
             IF Ended /\ outcome'.signal = "returned" THEN 0
             ELSE IF Ended /\ outcome'.err = "ConnectionError"
                  THEN connection_errors + 1
                  ELSE connection_errors]_vars

\* C12 witness: after a run that reached the threshold and a success, two
\* executions have failed with ConnectionError, the latter in fetch_static, and
\* the counter stands at 2.
C12_Witness ==
    /\ alert_runs = 1
    /\ raised_in_run = 0
    /\ data # None
    /\ outcome.err = "ConnectionError"
    /\ outcome.at = "fetch_static"
    /\ connection_errors = 2

\* C13: an execution that ends with an error other than AuthenticationError
\* and ConnectionError raises UpdateFailed("Unexpected error: ...") and leaves
\* the counter and the issue registry as they were.
C13_UnexpectedError ==
    [][(Ended /\ outcome'.err = "Exception")
          => /\ outcome'.signal = "UpdateFailed(Unexpected error)"
             /\ connection_errors' = connection_errors
             /\ issue' = issue]_vars

\* C13 witness: an unexpected error arrived from fetch_static with the counter
\* one below the threshold; the counter still stands there and no issue exists.
C13_Witness ==
    /\ outcome.err = "Exception"
    /\ outcome.at = "fetch_static"
    /\ connection_errors = CONNECTION_ERROR_THRESHOLD - 1
    /\ conn_run = CONNECTION_ERROR_THRESHOLD - 1
    /\ issue = 0

\* The execution in slot e returned data in this step.
Returned(e) ==
    /\ exec[e].pc # "idle"
    /\ exec'[e].pc = "idle"
    /\ Ended
    /\ outcome'.signal = "returned"

\* The dynamic payload of the execution in slot e that returns in this step:
\* the one it holds since its dynamic fetch returned, or the one that fetch
\* returns in this very step.
DynamicOf(e) ==
    IF exec[e].pc = "fetch_static" THEN exec[e].dynamic ELSE fetched'.dynamic

\* C14: in the data an execution returns, each of the seven static attributes
\* is that of the static payload the client returned last, and each of the four
\* dynamic attributes is that of the dynamic payload fetched by this execution.
C14_FieldSources ==
    [][\A e \in Slots : Returned(e) =>
          /\ DOMAIN data'[1] = StaticFields \cup DynamicFields
          /\ \A f \in StaticFields : data'[1][f] = fetched'.static
          /\ \A f \in DynamicFields : data'[1][f] = DynamicOf(e)]_vars

\* C14 witness: the latest execution reused the cache, and the dynamic
\* attributes it returned differ from those held in the cache.
C14_Witness ==
    /\ outcome.signal = "returned"
    /\ outcome.at = "fetch_dynamic"
    /\ data # None
    /\ \A f \in StaticFields : data[1][f] = static_data_cache[1][f]
    /\ \A f \in DynamicFields : data[1][f] # static_data_cache[1][f]

\* C15: the data an execution returns is determined by the static payload S in
\* force and the dynamic payload D it fetched, and by nothing else: whether it
\* fetched S itself or read it from the cache, it returns what the static
\* branch builds from S and D.
C15_MergeDeterminism ==
    [][\A e \in Slots : Returned(e) =>
          data'[1] = CoordinatorData(StaticData(fetched'.static),
                                     DynamicData(DynamicOf(e)))]_vars

\* C15 witness: an execution that reused the cache fetched the same dynamic
\* payload as the execution that had filled the cache, and returned the same
\* data as that one.
C15_Witness ==
    /\ outcome.signal = "returned"
    /\ outcome.at = "fetch_dynamic"
    /\ data = static_data_cache
    /\ fetched.dynamic = NumDynamic

\* C16: coordinator.data changes only in the step in which an execution
\* returns, after the fetches of that execution have completed, and is then
\* replaced as a whole; in every state, and so at every suspension point of an
\* execution, it is absent or the complete data of one static and one dynamic
\* payload, never a mix.
C16_NoPartialSnapshot ==
    /\ [](data # None =>
             \E v \in 1 .. NumStatic, d \in 1 .. NumDynamic :
                data[1] = CoordinatorData(StaticData(v), DynamicData(d)))
    /\ [][data' # data => \E e \in Slots : Returned(e)]_vars

\* C16 witness: an execution is suspended in fetch_static holding a dynamic
\* payload newer than the published one, while the data of an earlier
\* execution is still published unchanged.
C16_Witness ==
    /\ data # None
    /\ outcome.signal = "returned"
    /\ \E e \in Slots :
          /\ exec[e].pc = "fetch_static"
          /\ \A f \in DynamicFields : data[1][f] # exec[e].dynamic

\* C17: coordinator.data is None exactly until the first execution returns
\* (the first one to return has fetched the static payload), and once it is
\* not None it stays so, whatever executions fail or return afterwards.
C17_SnapshotStays ==
    /\ [](data = None <=> fetched.static = 0)
    /\ [][data # None => data' # None]_vars

\* C17 witness: since the latest execution that returned, the threshold number
\* of executions failed with ConnectionError, one failed with
\* AuthenticationError and the latest one with an unexpected error, and the
\* data is still there.
C17_Witness ==
    /\ data # None
    /\ conn_run = CONNECTION_ERROR_THRESHOLD
    /\ auth_failed
    /\ outcome.err = "Exception"

\* C18: from a call of async_refresh_static_data() until the next static fetch
\* that returns, the timestamp stays at zero, and every execution whose dynamic
\* fetch returns goes on to fetch_static, however recent the cached static
\* payload is.
C18_ForcedRefresh ==
    /\ [](forced => last_static_update = 0)
    /\ [][\A e \in Slots : (Decided(e) /\ forced) => exec'[e].pc = "fetch_static"]_vars

\* C18 witness: a forced refresh was requested, a static fetch then failed, and
\* a later execution is fetching the static payload again although the cached
\* one is within its max-age.
C18_Witness ==
    /\ forced
    /\ static_ok_time # 0
    /\ time - static_ok_time <= StaticInterval
    /\ outcome.err \in Errors
    /\ outcome.at = "fetch_static"
    /\ \E e \in Slots : exec[e].pc = "fetch_static"

\* C19: an issue that exists is removed only by the repair flow completing
\* after a connection test that succeeded; an execution that returns sets the
\* counter to 0 and leaves the issue as it is.
C19_AlertPersists ==
    [][/\ (issue # 0 /\ issue' = 0)
             => (repair.st = "testing" /\ repair'.st = "done" /\ repair'.tested = "ok")
       /\ \A e \in Slots : Returned(e) => (connection_errors' = 0 /\ issue' = issue)]_vars

\* C19 witness: the issue was raised, no repair flow has been opened, the
\* latest execution returned and the counter is back at 0; the issue is still
\* there.
C19_Witness ==
    /\ issue # 0
    /\ repair = NoRepair
    /\ outcome.signal = "returned"
    /\ data # None
    /\ connection_errors = 0

\* C20: when the connection test of the repair flow ends, then either it
\* succeeded and the flow stores the entered credentials, reloads the entry and
\* completes, the issue being removed, or it failed and the flow shows the
\* form again with the error key, the stored credentials, the number of
\* reloads and the issue being as before; the stored credentials change, a
\* reload happens and the flow completes in no other step.
C20_RepairRevalidates ==
    [][/\ (repair.st = "testing" /\ repair'.st # "testing") =>
             IF repair'.tested = "ok"
             THEN /\ repair'.st = "done"
                  /\ repair'.creds = repair.input
                  /\ repair'.reloads = repair.reloads + 1
                  /\ issue' = 0
             ELSE /\ repair'.tested \in Errors
                  /\ repair'.st = "form"
                  /\ repair'.error = ErrorKey(repair'.tested)
                  /\ repair'.creds = repair.creds
                  /\ repair'.reloads = repair.reloads
                  /\ issue' = issue /\ issue # 0
       /\ (\/ repair'.creds # repair.creds
           \/ repair'.reloads # repair.reloads
           \/ repair'.st = "done" /\ repair.st # "done")
             => (repair.st = "testing" /\ repair'.tested = "ok")]_vars

\* C20 witness: a first repair flow completed (credentials stored, entry
\* reloaded); the new coordinator raised the issue again, and in the second
\* flow the test of other credentials failed with ConnectionError: the form
\* shows cannot_connect, the stored credentials are those of the first flow.
C20_Witness ==
    /\ repair.st = "form"
    /\ repair.error = "cannot_connect"
    /\ repair.reloads = 1
    /\ repair.creds # 0
    /\ repair.input # repair.creds
    /\ issue # 0

\* enable_burst_mode() was called in this step.
BurstEnabled == burst_task' # burst_task

\* A burst task left its loop in this step.
BurstEnds == \E t \in TaskIds : tasks[t].st # "done" /\ tasks'[t].st = "done"

\* C21: a step in which enable_burst_mode() is called, or in which a burst
\* task leaves its loop (the update it awaited not having raised
\* ConfigEntryAuthFailed), leaves the intervals of the coordinator, and with
\* them update_interval, as they were, and leaves the periodic timer
\* registered if it was; the scan interval is the one of the options.
C21_TickUnchanged ==
    /\ [](intervals.scan_interval = OptionGet(options, "scan_interval", DEFAULT_SCAN_INTERVAL))
    /\ [][(BurstEnabled \/ (BurstEnds /\ ~(Ended /\ outcome'.err = "AuthenticationError")))
             => (intervals' = intervals /\ TickArmed' = TickArmed)]_vars

\* C21 witness: a first burst task has left its loop by itself, a second one
\* is alive, and an update started by the periodic timer is in flight.
C21_Witness ==
    /\ tasks[1].st = "done"
    /\ burst_task = 2
    /\ Alive(2)
    /\ TickArmed
    /\ \E e \in Slots : exec[e].owner = "sched" /\ exec[e].called >= last_enable

\* The ranges and the defaults of the configuration surface, in seconds.
ClaimedRange ==
    [scan_interval |-> << 10, 300 >>,
     burst_interval |-> << 1, 30 >>,
     burst_duration |-> << 10, 300 >>,
     static_interval |-> << 60, 900 >>]

ClaimedDefault ==
    [scan_interval |-> 30, burst_interval |-> 5, burst_duration |-> 60,
     static_interval |-> 300]

Within(v, k) == ClaimedRange[k][1] <= v /\ v <= ClaimedRange[k][2]

\* C22: the alert threshold is 3; a coordinator constructed without stored
\* options has the intervals 30, 5, 60 and 300; stored options and the
\* intervals of the coordinator constructed from them lie in [10,300], [1,30],
\* [10,300] and [60,900]; the form accepts a submission only if each of the
\* four values, in whole seconds, lies in its range, and then stores these
\* values, and a submission it rejects leaves the options as they were.
C22_ConfigRanges ==
    /\ [](CONNECTION_ERROR_THRESHOLD = 3)
    /\ [](options = None => intervals = ClaimedDefault)
    /\ [](options # None =>
             \A k \in IntervalKeys :
                Within(options[1][k], k) /\ intervals[k] = options[1][k])
    /\ [][optflow'.seq # optflow.seq =>
             IF optflow'.result = "create_entry"
             THEN /\ \A k \in IntervalKeys : Within(optflow'.input[1][k] \div Scale, k)
                  /\ options' # None
                  /\ \A k \in IntervalKeys :
                        options'[1][k] = optflow'.input[1][k] \div Scale
             ELSE /\ optflow'.result = "form"
                  /\ options' = options
                  /\ intervals' = intervals]_vars

\* C22 witness: the form stored a scan interval submitted just below 301
\* seconds as 300 and a static max-age of 60; a later submission with a burst
\* interval just below 1 second was rejected and the stored options are still
\* in force.
C22_Witness ==
    /\ optflow.result = "form"
    /\ optflow.input[1].burst_interval = MIN_BURST_INTERVAL * Scale - 1
    /\ optflow.input[1].scan_interval = MIN_SCAN_INTERVAL * Scale
    /\ options # None
    /\ options[1].scan_interval = 300
    /\ options[1].static_interval = 60
    /\ intervals.scan_interval = 300

\* No update has started and no fetch was issued.
NoFetchYet ==
    /\ \A e \in Slots : exec[e] = IdleExec
    /\ fetched = [static |-> 0, dynamic |-> 0]
    /\ outcome = NoOutcome

\* C23: a setup whose async_connect() raised AuthenticationError has failed
\* with ConfigEntryAuthFailed, one whose async_connect() raised ConnectionError
\* with ConfigEntryNotReady; in both cases async_disconnect() of the client was
\* awaited before the signal was raised, no coordinator was constructed and no
\* fetch was issued.
C23_SetupFailure ==
    /\ []((setup.st = "failed" /\ setup.err = "AuthenticationError")
             => (setup.signal = "ConfigEntryAuthFailed" /\ setup.client = "closed"
                 /\ ~setup.coordinator /\ NoFetchYet))
    /\ []((setup.st = "failed" /\ setup.err = "ConnectionError")
             => (setup.signal = "ConfigEntryNotReady" /\ setup.client = "closed"
                 /\ ~setup.coordinator /\ NoFetchYet))
    /\ [][(setup.st = "connecting" /\ setup'.st # "connecting"
           /\ setup'.err \in {"AuthenticationError", "ConnectionError"})
             => (setup'.st = "disconnecting" /\ setup'.signal = "none"
                 /\ ~setup'.coordinator /\ exec' = exec)]_vars
    /\ [][(setup'.signal # setup.signal
           /\ setup'.signal \in {"ConfigEntryAuthFailed", "ConfigEntryNotReady"})
             => (setup.st = "disconnecting" /\ setup'.client = "closed")]_vars

\* C23 witness: time has passed since the entry was added, and a setup has
\* just failed with ConfigEntryAuthFailed after disconnecting its client.
C23_Witness ==
    /\ now > 0
    /\ setup.st = "failed"
    /\ setup.err = "AuthenticationError"
    /\ setup.signal = "ConfigEntryAuthFailed"
    /\ setup.client = "closed"

\* C24: when the connection test of a user flow ends, it either succeeded and
\* the flow goes on to create the entry, or it raised AuthenticationError and
\* the form is shown with invalid_auth, or ConnectionError and the form is
\* shown with cannot_connect (any other error: unknown), no entry being
\* created; the next step of a flow whose test succeeded adds an entry whose
\* data is the submitted input, and an entry is added in no other step.
C24_UserFlow ==
    [][/\ \A f \in FlowIds :
             /\ (flows[f].kind = "user" /\ flows[f].st = "testing"
                 /\ flows'[f].st # "testing")
                   => /\ entries' = entries
                      /\ IF flows'[f].tested = "ok"
                         THEN flows'[f].st = "title" /\ flows'[f].input = flows[f].input
                         ELSE /\ flows'[f].st = "form"
                              /\ flows'[f].error =
                                    CASE flows'[f].tested = "AuthenticationError" -> "invalid_auth"
                                      [] flows'[f].tested = "ConnectionError" -> "cannot_connect"
                                      [] OTHER -> "unknown"
             /\ (flows[f].kind = "user" /\ flows[f].st = "title" /\ flows'[f] # flows[f])
                   => /\ flows'[f].st = "create_entry"
                      /\ \E e \in EntryIds : entries[e] = None /\ entries'[e] = flows[f].input
       /\ \A e \in EntryIds :
             (entries[e] = None /\ entries'[e] # None)
                => \E f \in FlowIds :
                      /\ flows[f].kind = "user"
                      /\ flows[f].tested = "ok"
                      /\ flows'[f].st = "create_entry"
                      /\ entries'[e] = flows[f].input]_vars

\* C24 witness: one user flow has created the only entry, and another one,
\* whose connection test raised ConnectionError, shows the form with
\* cannot_connect and has created nothing.
C24_Witness ==
    \E f, g \in FlowIds :
       /\ flows[f].kind = "user" /\ flows[f].st = "create_entry"
       /\ flows[f].tested = "ok"
       /\ flows[g].kind = "user" /\ flows[g].st = "form"
       /\ flows[g].tested = "ConnectionError"
       /\ flows[g].error = "cannot_connect"
       /\ Cardinality(Existing) = 1

\* C30 as stated: no two entries have the same host.
C30_Original ==
    \A a, b \in EntryIds :
       (a # b /\ entries[a] # None /\ entries[b] # None)
          => entries[a][1].host # entries[b][1].host

\* An execution ends in this step with a ConnectionError failure for which
\* the counter is at or above the threshold.
AlertingFailure ==
    /\ flip' # flip
    /\ outcome'.err = "ConnectionError"
    /\ connection_errors' >= CONNECTION_ERROR_THRESHOLD

\* The issue of the entry with the counter at n.
AlertOf(n) == [issue_id |-> RepairIssueId, host |-> EntryHost, error_count |-> n]

\* C25: the registry never holds more than one connection issue, and it is
\* the one under the identity of the entry; every ConnectionError failure
\* with the counter at or above the threshold leaves exactly that issue with
\* error_count equal to the counter, and the registry changes in no other
\* step but the one that removes the issue.
C25_AlertIdempotent ==
    [][/\ Cardinality(registry') <= 1
       /\ \A r \in registry' : r.issue_id = RepairIssueId
       /\ AlertingFailure => registry' = {AlertOf(connection_errors')}
       /\ registry' # registry => (AlertingFailure \/ registry' = {})]_vars

\* C25 witness: the issue was raised at the threshold and raised again by the
\* next failure of the same run; the registry holds one issue, carrying the
\* count of the latest failure.
C25_Witness ==
    /\ raised_in_run >= 2
    /\ outcome.err = "ConnectionError"
    /\ connection_errors = CONNECTION_ERROR_THRESHOLD + 1
    /\ registry = {AlertOf(CONNECTION_ERROR_THRESHOLD + 1)}

\* An execution ends in this step by returning from the static branch.
StaticSucceeds ==
    /\ flip' # flip
    /\ outcome'.signal = "returned"
    /\ outcome'.at = "fetch_static"

ControlEnded == control'.seq # control.seq

\* C27: a control action whose client call raised leaves the burst task, the
\* burst tasks, the time of the latest enable_burst_mode() and the executions
\* as they were; one whose client call returned has, in this order, created a
\* new burst task (cancelling the one that ran) with end_time a full duration
\* ahead and begun the execution of the refresh it requested; and a burst
\* task is created in no other step.
C27_ControlOrder ==
    [][/\ ControlEnded =>
             IF control'.result = "raised"
             THEN /\ burst_task' = burst_task
                  /\ tasks' = tasks
                  /\ last_enable' = last_enable
                  /\ exec' = exec
             ELSE /\ control'.result = "returned"
                  /\ burst_task' = burst_task + 1
                  /\ last_enable' = time
                  /\ tasks'[burst_task'].st = "sleep"
                  /\ tasks'[burst_task'].end_time = time + BurstDuration
                  /\ \A t \in TaskIds : t # burst_task' => tasks'[t].st \notin {"sleep", "refresh"}
                  /\ \E e \in Slots : /\ exec'[e].pc = "fetch_dynamic"
                                      /\ exec'[e].owner = "request"
                                      /\ exec'[e].called = time
       /\ (burst_task' # burst_task \/ last_enable' # last_enable)
             => (ControlEnded /\ control'.result = "returned")]_vars

\* C27 witness: a burst cycle is running, time has passed since it was
\* enabled, and the client call of a later control action raised: the cycle
\* keeps its deadline and no update is in flight.
C27_Witness ==
    /\ control.result = "raised"
    /\ burst_task # 0
    /\ tasks[burst_task].st = "sleep"
    /\ last_enable < time
    /\ tasks[burst_task].end_time = last_enable + BurstDuration
    /\ \A e \in Slots : exec[e].pc = "idle"

\* An execution fails in this step at its dynamic fetch.
DynamicFails ==
    /\ flip' # flip
    /\ outcome'.err \in Errors
    /\ outcome'.at = "fetch_dynamic"

\* C28: an execution that begins is suspended in the dynamic fetch; an
\* execution is suspended in the static fetch only from the step in which its
\* dynamic fetch returned a payload; and the step in which a dynamic fetch
\* fails ends that execution and moves no execution to the static fetch,
\* whatever the timestamp and the cache are.
C28_DynamicFirst ==
    [][/\ \A e \in Slots :
             /\ (exec[e].pc = "idle" /\ exec'[e].pc # "idle")
                   => (exec'[e].pc = "fetch_dynamic" /\ exec'[e].dynamic = 0)
             /\ (exec'[e].pc = "fetch_static" /\ exec[e].pc # "fetch_static")
                   => /\ exec[e].pc = "fetch_dynamic"
                      /\ exec'[e].dynamic # 0
                      /\ fetched'.dynamic = exec'[e].dynamic
                      /\ flip' = flip
       /\ DynamicFails
             => /\ \E e \in Slots : exec[e].pc = "fetch_dynamic" /\ exec'[e] = IdleExec
                /\ \A e \in Slots : exec'[e] = exec[e] \/ exec'[e] = IdleExec]_vars

\* C28 witness: the cache is absent, the dynamic fetch of the latest execution
\* failed, and the client has never been asked for the static payload with a
\* result: the execution ended without a static fetch.
C28_Witness ==
    /\ static_data_cache = None
    /\ NeedsStatic
    /\ outcome.err \in Errors
    /\ outcome.at = "fetch_dynamic"
    /\ fetched.static = 0
    /\ \A e \in Slots : exec[e].pc = "idle"

\* C29 as stated: once the entry is unloaded and async_disconnect() has
\* returned, no execution is suspended in a fetch it issued after that.
C29_Original ==
    [][setup.st = "unloaded" =>
          \A e \in Slots :
             exec'[e].pc \in {"fetch_dynamic", "fetch_static"}
                => exec'[e].pc = exec[e].pc]_vars

====
